---- MODULE Spec2Model ----
(***************************************************************************)
(* Verification model of the valuation engine of the client:               *)
(*   client/src/components/ValuationAnalysis.tsx                            *)
(*   client/src/components/MultiModelValuation.tsx                          *)
(*                                                                         *)
(* JavaScript values are modelled as follows.                              *)
(*   string     a sequence of one-character strings                        *)
(*   undefined  the value Undefined (no string equals it)                  *)
(*   object     a function from its own keys (a record); a key the object  *)
(*              does not have is not in its DOMAIN                         *)
(*   number     NaN, +Infinity, -Infinity, or a finite number held as an   *)
(*              exact fraction s * n / d of arbitrary-size naturals.       *)
(*              The model computes every arithmetic operation exactly      *)
(*              where an IEEE double rounds to 53 bits; -0 is not told     *)
(*              apart from 0 and overflow to Infinity is out of the        *)
(*              bounded inputs' reach.                                     *)
(* A value that the source names once and reads several times is passed    *)
(* on as the parameter of a helper operator (NameOf, NameFrom, ...).       *)
(***************************************************************************)
EXTENDS Integers, Naturals, Sequences, FiniteSets, TLC

(***************************************************************************)
(* Arbitrary-size naturals: little-endian sequences of digits in base      *)
(* 10^4 without leading zero digits; zero is the empty sequence.           *)
(***************************************************************************)
Base == 100 * 100

NZero == << >>

NOne == << 1 >>

Hd(a) == IF a = << >> THEN 0 ELSE Head(a)

Tl(a) == IF a = << >> THEN << >> ELSE Tail(a)

Cons(x, a) == IF x = 0 /\ a = << >> THEN << >> ELSE << x >> \o a

Front(a) == SubSeq(a, 1, Len(a) - 1)

Last(a) == a[Len(a)]

RECURSIVE NatOfInt(_)
NatOfInt(i) == IF i = 0 THEN << >> ELSE << i % Base >> \o NatOfInt(i \div Base)

RECURSIVE NAddC(_, _, _)
NAddC(a, b, c) ==
    IF a = << >> /\ b = << >>
    THEN (IF c = 0 THEN << >> ELSE << c >>)
    ELSE << (Hd(a) + Hd(b) + c) % Base >>
         \o NAddC(Tl(a), Tl(b), (Hd(a) + Hd(b) + c) \div Base)

NAdd(a, b) == NAddC(a, b, 0)

RECURSIVE NCmp(_, _)
\* -1, 0, 1 as a < b, a = b, a > b
NCmp(a, b) ==
    IF Len(a) # Len(b) THEN (IF Len(a) < Len(b) THEN -1 ELSE 1)
    ELSE IF a = << >> THEN 0
    ELSE IF Last(a) # Last(b) THEN (IF Last(a) < Last(b) THEN -1 ELSE 1)
    ELSE NCmp(Front(a), Front(b))

RECURSIVE NSubB(_, _, _)
\* a - b - borrow for a >= b + borrow
NSubB(a, b, c) ==
    IF a = << >> THEN << >>
    ELSE IF Hd(a) - Hd(b) - c < 0
         THEN Cons(Hd(a) - Hd(b) - c + Base, NSubB(Tl(a), Tl(b), 1))
         ELSE Cons(Hd(a) - Hd(b) - c, NSubB(Tl(a), Tl(b), 0))

NSub(a, b) == NSubB(a, b, 0)

RECURSIVE NMulSmallC(_, _, _)
NMulSmallC(a, m, c) ==
    IF a = << >>
    THEN (IF c = 0 THEN << >> ELSE << c >>)
    ELSE << (Head(a) * m + c) % Base >>
         \o NMulSmallC(Tail(a), m, (Head(a) * m + c) \div Base)

\* a * m for a digit m
NMulSmall(a, m) == IF m = 0 THEN << >> ELSE NMulSmallC(a, m, 0)

RECURSIVE NMul(_, _)
NMul(a, b) ==
    IF a = << >> \/ b = << >> THEN << >>
    ELSE NAdd(NMulSmall(a, Head(b)), Cons(0, NMul(a, Tail(b))))

RECURSIVE NTrim(_)
NTrim(a) ==
    IF a = << >> THEN << >>
    ELSE IF Last(a) = 0 THEN NTrim(Front(a)) ELSE a

\* the quotient res of the higher digits with one more, lower digit
PutDigit(res, digit) == [q |-> res.q \o << digit >>, r |-> res.r]

RECURSIVE NDivSmallR(_, _, _)
\* a div m and a mod m for a digit m > 0, from the most significant digit down;
\* carry is the remainder so far.  (Digits are collected most significant
\* last, as in the sequences themselves.)
NDivSmallR(a, m, carry) ==
    IF a = << >> THEN [q |-> << >>, r |-> carry]
    ELSE PutDigit(NDivSmallR(Front(a), m, (carry * Base + Last(a)) % m),
                  (carry * Base + Last(a)) \div m)

Trimmed(res) == [q |-> NTrim(res.q), r |-> res.r]

NDivSmall(a, m) == Trimmed(NDivSmallR(a, m, 0))

RECURSIVE NDigitSearch(_, _, _, _)
\* the largest digit q in lo..hi with b * q <= r (b * lo <= r is given)
NDigitSearch(r, b, lo, hi) ==
    IF lo = hi THEN lo
    ELSE IF NCmp(NMulSmall(b, (lo + hi + 1) \div 2), r) <= 0
         THEN NDigitSearch(r, b, (lo + hi + 1) \div 2, hi)
         ELSE NDigitSearch(r, b, lo, ((lo + hi + 1) \div 2) - 1)

RECURSIVE NDivModR(_, _, _)

\* one step of the long division: cur is the remainder so far with the next
\* digit of a, qd the quotient digit it gives
NDivModStep(a, b, cur, qd) ==
    PutDigit(NDivModR(Front(a), b, NSub(cur, NMulSmall(b, qd))), qd)

\* long division of a by b > 0, from the most significant digit of a down:
\* rem is the remainder so far
NDivModR(a, b, rem) ==
    IF a = << >> THEN [q |-> << >>, r |-> rem]
    ELSE NDivModStep(a, b, Cons(Last(a), rem),
                     NDigitSearch(Cons(Last(a), rem), b, 0, Base - 1))

NDivMod(a, b) == Trimmed(NDivModR(a, b, << >>))

RECURSIVE Pow10(_)
Pow10(j) == IF j = 0 THEN NOne ELSE NMulSmall(Pow10(j - 1), 10)

(***************************************************************************)
(* JavaScript numbers.  A finite number is s * n / d with s in {-1, 0, 1}, *)
(* n and d naturals, d > 0; common factors 2, 3, 5 and 7 (the primes of    *)
(* the engine's constants) are cancelled to keep the fractions short.      *)
(* Numbers are compared with NumCmp, never with =, except where both sides *)
(* come out of the same computation.                                       *)
(***************************************************************************)
NaN == [k |-> "nan", s |-> 0, n |-> NZero, d |-> NOne]

Infinity == [k |-> "inf", s |-> 1, n |-> NZero, d |-> NOne]

NegInfinity == [k |-> "inf", s |-> -1, n |-> NZero, d |-> NOne]

Zero == [k |-> "fin", s |-> 0, n |-> NZero, d |-> NOne]

RECURSIVE Strip(_, _, _)

StripStep(n, d, p, a, b) ==
    IF a.r = 0 /\ b.r = 0 THEN Strip(a.q, b.q, p) ELSE << n, d >>

\* n and d without their common factors p
Strip(n, d, p) == StripStep(n, d, p, NDivSmall(n, p), NDivSmall(d, p))

StripPair(t, p) == Strip(t[1], t[2], p)

FinPair(s, t) == [k |-> "fin", s |-> s, n |-> t[1], d |-> t[2]]

Fin(s, n, d) ==
    IF s = 0 \/ n = NZero THEN Zero
    ELSE FinPair(s, StripPair(StripPair(StripPair(Strip(n, d, 2), 3), 5), 7))

\* the number s * |i| / d for an integer i
FinInt(s, i, d) == Fin(s, NatOfInt(IF i < 0 THEN -i ELSE i), d)

\* the number literal i (an integer)
Num(i) == FinInt(IF i < 0 THEN -1 ELSE IF i = 0 THEN 0 ELSE 1, i, NOne)

\* the decimal literal i / 10^e, as 1.12 == Dec(112, 2)
Dec(i, e) == FinInt(IF i < 0 THEN -1 ELSE IF i = 0 THEN 0 ELSE 1, i, Pow10(e))

IsNaN(x) == x.k = "nan"

IsFinite(x) == x.k = "fin"

SAddCmp(s1, m1, s2, m2, c) ==
    IF c = 0 THEN << 0, NZero >>
    ELSE IF c > 0 THEN << s1, NSub(m1, m2) >>
    ELSE << s2, NSub(m2, m1) >>

\* the sum of the signed naturals (s1, m1) and (s2, m2), as << sign, magnitude >>
SAdd(s1, m1, s2, m2) ==
    IF s1 = 0 THEN << s2, m2 >>
    ELSE IF s2 = 0 THEN << s1, m1 >>
    ELSE IF s1 = s2 THEN << s1, NAdd(m1, m2) >>
    ELSE SAddCmp(s1, m1, s2, m2, NCmp(m1, m2))

FinSigned(t, d) == Fin(t[1], t[2], d)

\* x + y
Add(x, y) ==
    IF IsNaN(x) \/ IsNaN(y) THEN NaN
    ELSE IF x.k = "inf" /\ y.k = "inf" THEN (IF x.s = y.s THEN x ELSE NaN)
    ELSE IF x.k = "inf" THEN x
    ELSE IF y.k = "inf" THEN y
    ELSE FinSigned(SAdd(x.s, NMul(x.n, y.d), y.s, NMul(y.n, x.d)), NMul(x.d, y.d))

\* -x
Neg(x) == IF IsNaN(x) THEN NaN ELSE [x EXCEPT !.s = -x.s]

\* x - y
Sub(x, y) == Add(x, Neg(y))

\* x * y
Mul(x, y) ==
    IF IsNaN(x) \/ IsNaN(y) THEN NaN
    ELSE IF x.k = "inf" \/ y.k = "inf"
         THEN (IF x.s * y.s = 0 THEN NaN
               ELSE IF x.s * y.s > 0 THEN Infinity ELSE NegInfinity)
    ELSE Fin(x.s * y.s, NMul(x.n, y.n), NMul(x.d, y.d))

\* x / y
Div(x, y) ==
    IF IsNaN(x) \/ IsNaN(y) THEN NaN
    ELSE IF x.k = "inf"
         THEN (IF y.k = "inf" THEN NaN
               ELSE IF y.s < 0 THEN Neg(x) ELSE x)
    ELSE IF y.k = "inf" THEN Zero
    ELSE IF y.s = 0
         THEN (IF x.s = 0 THEN NaN ELSE IF x.s > 0 THEN Infinity ELSE NegInfinity)
    ELSE Fin(x.s * y.s, NMul(x.n, y.d), NMul(x.d, y.n))

\* the place of x among -Infinity < finite < +Infinity
Rank(x) == IF x.k = "inf" THEN 2 * x.s ELSE 0

\* -1, 0, 1 as x < y, x = y, x > y, for x and y not NaN
NumCmp(x, y) ==
    IF x.k = "inf" \/ y.k = "inf"
    THEN (IF Rank(x) < Rank(y) THEN -1 ELSE IF Rank(x) > Rank(y) THEN 1 ELSE 0)
    ELSE IF x.s # y.s THEN (IF x.s < y.s THEN -1 ELSE 1)
    ELSE IF x.s = 0 THEN 0
    ELSE x.s * NCmp(NMul(x.n, y.d), NMul(y.n, x.d))

\* x < y, x > y, x >= y, x <= y, x === y: false when either side is NaN
Lt(x, y) == ~IsNaN(x) /\ ~IsNaN(y) /\ NumCmp(x, y) < 0

Gt(x, y) == ~IsNaN(x) /\ ~IsNaN(y) /\ NumCmp(x, y) > 0

Ge(x, y) == ~IsNaN(x) /\ ~IsNaN(y) /\ NumCmp(x, y) >= 0

Le(x, y) == ~IsNaN(x) /\ ~IsNaN(y) /\ NumCmp(x, y) <= 0

NumEq(x, y) == ~IsNaN(x) /\ ~IsNaN(y) /\ NumCmp(x, y) = 0

\* the truth value of a number: NaN and 0 are falsy
NumTruthy(x) == ~IsNaN(x) /\ x.s # 0

\* x || y on numbers
OrElse(x, y) == IF NumTruthy(x) THEN x ELSE y

\* Math.max(x, y) and Math.min(x, y): NaN when either argument is NaN
Max2(x, y) == IF IsNaN(x) \/ IsNaN(y) THEN NaN
              ELSE IF NumCmp(x, y) >= 0 THEN x ELSE y

Min2(x, y) == IF IsNaN(x) \/ IsNaN(y) THEN NaN
              ELSE IF NumCmp(x, y) <= 0 THEN x ELSE y

\* floor(t / d2) for the signed natural t and the natural d2 > 0
FloorDiv(t, d2) ==
    IF t[1] = 0 THEN Zero
    ELSE IF t[1] > 0 THEN Fin(1, NDivMod(t[2], d2).q, NOne)
    ELSE Fin(-1, NDivMod(NSub(NAdd(t[2], d2), NOne), d2).q, NOne)

\* Math.round(x): floor(x + 1/2), the integer nearest to x with halves
\* rounded towards +Infinity
MathRound(x) ==
    IF ~IsFinite(x) THEN x
    ELSE IF x.s = 0 THEN Zero
    ELSE FloorDiv(SAdd(x.s, NMulSmall(x.n, 2), 1, x.d), NMulSmall(x.d, 2))

RECURSIVE MathPow(_, _)
\* Math.pow(x, y) for an integer y >= 1
MathPow(x, y) == IF y = 1 THEN x ELSE Mul(x, MathPow(x, y - 1))

\* x is an integer
IsInteger(x) == IsFinite(x) /\ x.d = NOne

(***************************************************************************)
(* Strings, undefined and objects.                                         *)
(***************************************************************************)
Undefined == << "undefined" >>

DigitChars == << "0", "1", "2", "3", "4", "5", "6", "7", "8", "9" >>

IsDigit(c) == \E i \in 1..10 : DigitChars[i] = c

DigitVal(c) == (CHOOSE i \in 1..10 : DigitChars[i] = c) - 1

\* `val && val !== ''` of a string or undefined
Truthy(v) == v # Undefined /\ v # << >>

\* o[key], undefined when o has no such key
Get(o, key) == IF key \in DOMAIN o THEN o[key] ELSE Undefined

\* v || dflt on strings
StrOr(v, dflt) == IF Truthy(v) THEN v ELSE dflt

RECURSIVE SkipWs(_)
SkipWs(str) == IF str # << >> /\ Head(str) = " " THEN SkipWs(Tail(str)) ELSE str

RECURSIVE DigitRun(_)
\* the number of digits str starts with
DigitRun(str) ==
    IF str # << >> /\ IsDigit(Head(str)) THEN 1 + DigitRun(Tail(str)) ELSE 0

RECURSIVE DigitsToNat(_, _)
DigitsToNat(str, acc) ==
    IF str = << >> THEN acc
    ELSE DigitsToNat(Tail(str), NAdd(NMulSmall(acc, 10), NatOfInt(DigitVal(Head(str)))))

\* the value of the ni digits s1 starts with and the nf digits after the dot
parseValue(s1, neg, ni, nf) ==
    IF ni + nf = 0 THEN NaN
    ELSE Fin(IF neg THEN -1 ELSE 1,
             DigitsToNat(SubSeq(s1, 1, ni) \o SubSeq(s1, ni + 2, ni + 1 + nf), NZero),
             Pow10(nf))

\* the number of digits after a dot that follows the ni digits s1 starts with
fractionLen(s1, ni) ==
    IF ni < Len(s1) /\ s1[ni + 1] = "." THEN DigitRun(SubSeq(s1, ni + 2, Len(s1)))
    ELSE 0

parseDigits(s1, neg, ni) == parseValue(s1, neg, ni, fractionLen(s1, ni))

parseSigned(s0) ==
    IF s0 # << >> /\ Head(s0) \in {"+", "-"}
    THEN parseDigits(Tail(s0), Head(s0) = "-", DigitRun(Tail(s0)))
    ELSE parseDigits(s0, FALSE, DigitRun(s0))

\* parseFloat(v): leading blanks are skipped, then the longest prefix
\* [+-] digits [. digits] is the value and what follows it is ignored; NaN when
\* there is no digit.  undefined reads as the text "undefined", hence NaN.
\* (Exponents and the literal Infinity are not modelled.)
parseFloat(v) == IF v = Undefined THEN NaN ELSE parseSigned(SkipWs(v))

(***************************************************************************)
(* String literals of the source.                                          *)
(***************************************************************************)
S_idea == << "i", "d", "e", "a" >>

S_pre_revenue == << "p", "r", "e", "-", "r", "e", "v", "e", "n", "u", "e" >>

S_growth == << "g", "r", "o", "w", "t", "h" >>

S_expansion == << "e", "x", "p", "a", "n", "s", "i", "o", "n" >>

S_unknown == << "u", "n", "k", "n", "o", "w", "n" >>

S_high == << "h", "i", "g", "h" >>

S_medium == << "m", "e", "d", "i", "u", "m" >>

S_mvp == << "m", "v", "p" >>

S_development == << "d", "e", "v", "e", "l", "o", "p", "m", "e", "n", "t" >>

S_0 == << "0" >>

(***************************************************************************)
(* getAIRecommendation, as a function of the companyData it closes over:   *)
(* the model id and the reasoning it returns (and puts in selectedModel    *)
(* and aiRecommendation).                                                  *)
(***************************************************************************)
\* Variant of the rule list whose early-revenue rule reads revenue <= 1000000
C5_InclusiveThreshold(revenue, hasRevenue, stage, teamExp, productStage) ==
    IF ~hasRevenue /\ (stage = S_idea \/ stage = S_pre_revenue)
    THEN IF teamExp = S_high /\ productStage = S_mvp
         THEN [model |-> "scorecard",
               reasoning |-> "Early-stage startup with strong team and MVP - Scorecard method provides market-based comparison"]
         ELSE [model |-> "berkus",
               reasoning |-> "Pre-revenue startup - Berkus method ideal for qualitative assessment"]
    ELSE IF hasRevenue /\ Le(revenue, Num(1000000))
    THEN [model |-> "riskFactor",
          reasoning |-> "Early revenue stage - Risk Factor Summation provides comprehensive risk-adjusted valuation"]
    ELSE IF hasRevenue /\ Ge(revenue, Num(1000000))
    THEN IF stage = S_growth \/ stage = S_expansion
         THEN [model |-> "dcf",
               reasoning |-> "Established revenue - DCF analysis provides accurate cash flow-based valuation"]
         ELSE [model |-> "comparables",
               reasoning |-> "Mature company - Market comparables provide industry-standard valuation"]
    ELSE [model |-> "scorecard",
          reasoning |-> "Default recommendation - Scorecard method provides balanced startup valuation"]

\* Variant of the rule list without its last branch: nothing is returned when
\* no rule matches
C6_NoFallback(revenue, hasRevenue, stage, teamExp, productStage) ==
    IF ~hasRevenue /\ (stage = S_idea \/ stage = S_pre_revenue)
    THEN IF teamExp = S_high /\ productStage = S_mvp
         THEN [model |-> "scorecard",
               reasoning |-> "Early-stage startup with strong team and MVP - Scorecard method provides market-based comparison"]
         ELSE [model |-> "berkus",
               reasoning |-> "Pre-revenue startup - Berkus method ideal for qualitative assessment"]
    ELSE IF hasRevenue /\ Lt(revenue, Num(1000000))
    THEN [model |-> "riskFactor",
          reasoning |-> "Early revenue stage - Risk Factor Summation provides comprehensive risk-adjusted valuation"]
    ELSE IF hasRevenue /\ Ge(revenue, Num(1000000))
    THEN IF stage = S_growth \/ stage = S_expansion
         THEN [model |-> "dcf",
               reasoning |-> "Established revenue - DCF analysis provides accurate cash flow-based valuation"]
         ELSE [model |-> "comparables",
               reasoning |-> "Mature company - Market comparables provide industry-standard valuation"]
    ELSE [model |-> "", reasoning |-> ""]

\* Variant of the rule list that gives the venture-capital method to an
\* established company that is not in growth or expansion
C25_VcForMature(revenue, hasRevenue, stage, teamExp, productStage) ==
    IF ~hasRevenue /\ (stage = S_idea \/ stage = S_pre_revenue)
    THEN IF teamExp = S_high /\ productStage = S_mvp
         THEN [model |-> "scorecard",
               reasoning |-> "Early-stage startup with strong team and MVP - Scorecard method provides market-based comparison"]
         ELSE [model |-> "berkus",
               reasoning |-> "Pre-revenue startup - Berkus method ideal for qualitative assessment"]
    ELSE IF hasRevenue /\ Lt(revenue, Num(1000000))
    THEN [model |-> "riskFactor",
          reasoning |-> "Early revenue stage - Risk Factor Summation provides comprehensive risk-adjusted valuation"]
    ELSE IF hasRevenue /\ Ge(revenue, Num(1000000))
    THEN IF stage = S_growth \/ stage = S_expansion
         THEN [model |-> "dcf",
               reasoning |-> "Established revenue - DCF analysis provides accurate cash flow-based valuation"]
         ELSE [model |-> "vcMethod",
               reasoning |-> "Mature company - Market comparables provide industry-standard valuation"]
    ELSE [model |-> "scorecard",
          reasoning |-> "Default recommendation - Scorecard method provides balanced startup valuation"]

recommendFrom(revenue, hasRevenue, stage, teamExp, productStage) ==
    IF ~hasRevenue /\ (stage = S_idea \/ stage = S_pre_revenue)
    THEN IF teamExp = S_high /\ productStage = S_mvp
         THEN [model |-> "scorecard",
               reasoning |-> "Early-stage startup with strong team and MVP - Scorecard method provides market-based comparison"]
         ELSE [model |-> "berkus",
               reasoning |-> "Pre-revenue startup - Berkus method ideal for qualitative assessment"]
    ELSE IF hasRevenue /\ Lt(revenue, Num(1000000))
    THEN [model |-> "riskFactor",
          reasoning |-> "Early revenue stage - Risk Factor Summation provides comprehensive risk-adjusted valuation"]
    ELSE IF hasRevenue /\ Ge(revenue, Num(1000000))
    THEN IF stage = S_growth \/ stage = S_expansion
         THEN [model |-> "dcf",
               reasoning |-> "Established revenue - DCF analysis provides accurate cash flow-based valuation"]
         ELSE [model |-> "comparables",
               reasoning |-> "Mature company - Market comparables provide industry-standard valuation"]
    ELSE [model |-> "scorecard",
          reasoning |-> "Default recommendation - Scorecard method provides balanced startup valuation"]

recommendFor(revenue, stage, teamExp, productStage) ==
    recommendFrom(revenue, Gt(revenue, Zero), stage, teamExp, productStage)

getAIRecommendation(cd) ==
    recommendFor(OrElse(parseFloat(Get(cd, "revenue")), Zero),
                 StrOr(Get(cd, "stage"), S_unknown),
                 StrOr(Get(cd, "teamExperience"), S_medium),
                 StrOr(Get(cd, "productStage"), S_development))

(***************************************************************************)
(* The ValuationAnalysis component.                                        *)
(*   companyData       the prop of the current render                      *)
(*   valuationResults, selectedModel, aiRecommendation, calculating        *)
(*                     its useState cells                                  *)
(*   timers            the pending setTimeout callbacks of the effect, in  *)
(*                     firing order, each with the companyData of the      *)
(*                     render that scheduled it                            *)
(*   computedFor       the companyData valuationResults was computed from  *)
(*   firstRun          the companyData and results of the first            *)
(*                     calculation (observation only)                      *)
(*   changes           the number of prop changes so far                   *)
(***************************************************************************)
VARIABLES companyData, valuationResults, selectedModel, aiRecommendation,
          calculating, timers, computedFor, firstRun, changes

\* One call of calculateValuations, statement by statement: the companyData
\* it reads, the statement it is at, the loop index, the accumulator of the
\* running reduce, the projectedCashFlows array, the values computed so far,
\* and the numbers of iterations and of steps it has made
VARIABLES callData, pc, index, accumulator, cashFlows, computed, iterations, steps

viewVars == << companyData, valuationResults, selectedModel, aiRecommendation,
               calculating, timers, computedFor, firstRun, changes >>

callVars == << callData, pc, index, accumulator, cashFlows, computed, iterations, steps >>

\* The MultiModelValuation component: its companyData prop, its useState
\* cells activeView, selectedModel, aiRecommendation and valuationResults,
\* what is pending after a click on Calculate Valuation (the request or the
\* fallback timer), how the last request ended, and the number of clicks
VARIABLES mmvCompanyData, activeView, mmvSelectedModel, mmvAiRecommendation,
          mmvValuationResults, pending, outcome, clicks

mmvVars == << mmvCompanyData, activeView, mmvSelectedModel, mmvAiRecommendation,
              mmvValuationResults, pending, outcome, clicks >>

\* FileUploadSection: its useState cells currentStep, manualData, files (the
\* number of files chosen), uploading and uploadComplete, the manualData
\* captured by the handleUpload call that awaits the response, and the
\* handler that ran last
VARIABLES currentStep, manualData, files, uploading, uploadComplete, captured,
          lastHandler

formVars == << currentStep, manualData, files, uploading, uploadComplete, captured,
               lastHandler >>

vars == << viewVars, callVars, mmvVars, formVars >>

(***************************************************************************)
(* calculateValuations of ValuationAnalysis, method by method.             *)
(***************************************************************************)
\* what a numeric field is replaced by when it parses to NaN or to 0
fieldDefault ==
    [revenue |-> Zero, growthRate |-> Num(35), expenses |-> Zero,
     customerCount |-> Zero, churnRate |-> Num(8), cac |-> Num(1200),
     ltv |-> Num(5000)]

\* parseFloat(companyData[key]) || default
numericField(cd, key) == OrElse(parseFloat(Get(cd, key)), fieldDefault[key])

\* parseFloat(companyData.employees || '0')
employeesOf(employeesText) == parseFloat(StrOr(employeesText, S_0))

RECURSIVE SumOf(_)
\* values.reduce((sum, v) => sum + v, 0)
SumOf(values) ==
    IF values = << >> THEN Zero
    ELSE Add(SumOf(Front(values)), Last(values))

RECURSIVE ProductOf(_)
\* values.reduce((prod, v) => prod * v, 1)
ProductOf(values) ==
    IF values = << >> THEN Num(1)
    ELSE Mul(ProductOf(Front(values)), Last(values))

\* 1. Berkus
berkusFactors == << Dec(5, 1), Dec(7, 1), Dec(8, 1), Dec(6, 1), Dec(5, 1) >>

maxBerkusValue == 2000000

berkusValue == Mul(Div(SumOf(berkusFactors), Num(5)), Num(maxBerkusValue))

\* 2. Scorecard
regionAverage == 2000000

scorecardFactors ==
    << Dec(125, 2), Dec(10, 1), Dec(11, 1), Dec(9, 1), Dec(105, 2), Dec(95, 2), Dec(10, 1) >>

scorecardMultiplier == ProductOf(scorecardFactors)

scorecardValue == Mul(Num(regionAverage), scorecardMultiplier)

\* 3. Risk Factor Summation
riskFactors ==
    << Num(0), Num(-1), Num(0), Num(0), Num(1), Num(0),
       Num(-1), Num(1), Num(0), Num(0), Num(1), Num(0) >>

\* Variant of the risk adjustment without the 25% weight of a risk unit
C15_UnweightedAdjustment == SumOf(riskFactors)

riskAdjustment == Mul(SumOf(riskFactors), Dec(25, 2))

riskFactorValue == Mul(scorecardValue, Add(Num(1), riskAdjustment))

\* 4. Venture Capital
industryPEMultiple == 15

requiredROI == 10

investorShare == Dec(25, 2)

projectedRevenue5Y(revenue, growthRate) ==
    OrElse(Mul(revenue, MathPow(Add(Num(1), Div(growthRate, Num(100))), 5)),
           Num(10000000))

vcValue(revenue, growthRate) ==
    Mul(Div(Mul(projectedRevenue5Y(revenue, growthRate), Num(industryPEMultiple)),
            Num(requiredROI)),
        Sub(Num(1), investorShare))

\* 5. DCF
discountRate == Dec(12, 2)

terminalGrowth == Dec(3, 2)

\* Variant of the margin without the || 0.3 fallback
C9_MarginWithoutFallback(revenue, ebitda) == Div(ebitda, revenue)

\* the margin applied to every projected year: ebitda / revenue || 0.3
ebitdaMargin(revenue, ebitda) == OrElse(Div(ebitda, revenue), Dec(3, 1))

\* projectedCashFlows after the loop over year = 1..5
projectedCashFlows(revenue, expenses, growthRate) ==
    [year \in 1..5 |->
        Mul(Mul(revenue, MathPow(Add(Num(1), Div(growthRate, Num(100))), year)),
            ebitdaMargin(revenue, Sub(revenue, expenses)))]

RECURSIVE DiscountedSum(_, _)
\* cfs.reduce((sum, cf, index) => sum + cf / Math.pow(1 + discountRate, index + 1), 0)
\* over the first k cash flows
DiscountedSum(cfs, k) ==
    IF k = 0 THEN Zero
    ELSE Add(DiscountedSum(cfs, k - 1),
             Div(cfs[k], MathPow(Add(Num(1), discountRate), k)))

terminalValueOf(cfs) ==
    Div(Mul(cfs[5], Add(Num(1), terminalGrowth)), Sub(discountRate, terminalGrowth))

dcfFrom(cfs) ==
    Add(DiscountedSum(cfs, Len(cfs)),
        Div(terminalValueOf(cfs), MathPow(Add(Num(1), discountRate), 5)))

dcfValue(revenue, expenses, growthRate) ==
    dcfFrom(projectedCashFlows(revenue, expenses, growthRate))

\* 6. Comparables
revenueMultiple == Dec(125, 1)

ebitdaMultiple == 35

customerMultiple == 4200

employeeMultiple == 500000

comparablesValue(revenue, expenses, customerCount, employeesText) ==
    Max2(Max2(Mul(revenue, revenueMultiple),
              Mul(Sub(revenue, expenses), Num(ebitdaMultiple))),
         Max2(Mul(customerCount, Num(customerMultiple)),
              Mul(employeesOf(employeesText), Num(employeeMultiple))))

\* 8. AI valuation: premiums and discounts on the comparables value
growthPremium(value, growthRate) ==
    IF Gt(growthRate, Num(30)) THEN Mul(value, Dec(12, 1))
    ELSE IF Gt(growthRate, Num(20)) THEN Mul(value, Dec(11, 1))
    ELSE value

\* Variant of the churn step that gives the discount above 10 only
C19_StrictChurnDiscount(value, churnRate) ==
    IF Lt(churnRate, Num(5)) THEN Mul(value, Dec(11, 1))
    ELSE IF Gt(churnRate, Num(10)) THEN Mul(value, Dec(9, 1))
    ELSE value

churnPremium(value, churnRate) ==
    IF Lt(churnRate, Num(5)) THEN Mul(value, Dec(11, 1))
    ELSE IF Ge(churnRate, Num(10)) THEN Mul(value, Dec(9, 1))
    ELSE value

unitEconomicsPremium(value, cac, ltv) ==
    IF Gt(Div(ltv, cac), Num(3)) THEN Mul(value, Dec(115, 2))
    ELSE Mul(value, Dec(105, 2))

aiValue(comparables, growthRate, churnRate, cac, ltv) ==
    Mul(unitEconomicsPremium(churnPremium(growthPremium(comparables, growthRate),
                                          churnRate),
                             cac, ltv),
        Dec(105, 2))

\* Object.values(cd).filter(val => val && val !== '').length / Object.keys(cd).length
dataCompleteness(cd) ==
    Div(Num(Cardinality({key \in DOMAIN cd : Truthy(cd[key])})),
        Num(Cardinality(DOMAIN cd)))

\* Variant of the prior that is 0.9 from revenue 0 on
C21_PriorFromZero(revenue) == IF Ge(revenue, Zero) THEN Dec(9, 1) ELSE Dec(7, 1)

\* Variant of the prior that is 1 with revenue
C24_FullPrior(revenue) == IF Gt(revenue, Zero) THEN Num(1) ELSE Dec(7, 1)

methodConfidence(revenue) == IF Gt(revenue, Zero) THEN Dec(9, 1) ELSE Dec(7, 1)

\* Variant of the confidence without the Math.max(60, ...) clamp
C1_WithoutFloor(cd, revenue) ==
    Min2(Num(95), Mul(Mul(dataCompleteness(cd), methodConfidence(revenue)), Num(100)))

\* the confidence, before Math.round
confidenceOf(cd, revenue) ==
    Min2(Num(95),
         Max2(Num(60),
              Mul(Mul(dataCompleteness(cd), methodConfidence(revenue)), Num(100))))

\* Variant of the final value that reads the selectedModel cell of the render
\* instead of the recommendation just computed
C8_StaleSelection(methodValues, model) ==
    IF selectedModel \in DOMAIN methodValues
    THEN OrElse(methodValues[selectedModel], scorecardValue)
    ELSE scorecardValue

\* methodValues[model] || scorecardValue
finalValueOf(methodValues, model) ==
    IF model \in DOMAIN methodValues
    THEN OrElse(methodValues[model], scorecardValue)
    ELSE scorecardValue

\* Variant of methodValues whose Berkus entry is scaled by the comparables
\* value when that is below the Berkus cap
C16_BerkusScaledByComparables(vc, dcf, comparables, ai) ==
    [berkus |-> IF Lt(comparables, Num(maxBerkusValue))
                THEN Mul(Div(comparables, Num(maxBerkusValue)), berkusValue)
                ELSE berkusValue,
     scorecard |-> scorecardValue,
     riskFactor |-> riskFactorValue, vcMethod |-> vc, dcf |-> dcf,
     comparables |-> comparables, ucaas |-> comparables, ai |-> ai]

methodValuesOf(vc, dcf, comparables, ai) ==
    [berkus |-> berkusValue, scorecard |-> scorecardValue,
     riskFactor |-> riskFactorValue, vcMethod |-> vc, dcf |-> dcf,
     comparables |-> comparables, ucaas |-> comparables, ai |-> ai]

\* the object handed to setValuationResults
resultsOf(methodValues, recommendation, confidence) ==
    [berkus |-> MathRound(methodValues.berkus),
     scorecard |-> MathRound(methodValues.scorecard),
     riskFactor |-> MathRound(methodValues.riskFactor),
     vcMethod |-> MathRound(methodValues.vcMethod),
     dcf |-> MathRound(methodValues.dcf),
     comparables |-> MathRound(methodValues.comparables),
     ucaas |-> MathRound(methodValues.ucaas),
     ai |-> MathRound(methodValues.ai),
     final |-> MathRound(finalValueOf(methodValues, recommendation.model)),
     confidence |-> MathRound(confidence),
     selectedMethod |-> recommendation.model,
     methodology |-> recommendation.reasoning]

\* methods 6 to 8 and the result, once the comparables value is known
valuationsWith(cd, revenue, growthRate, expenses, churnRate, cac, ltv, comparables) ==
    resultsOf(methodValuesOf(vcValue(revenue, growthRate),
                             dcfValue(revenue, expenses, growthRate),
                             comparables,
                             aiValue(comparables, growthRate, churnRate, cac, ltv)),
              getAIRecommendation(cd),
              confidenceOf(cd, revenue))

\* the methods, once the numeric fields are parsed
valuationsFrom(cd, revenue, growthRate, expenses, customerCount, churnRate, cac, ltv) ==
    valuationsWith(cd, revenue, growthRate, expenses, churnRate, cac, ltv,
                   comparablesValue(revenue, expenses, customerCount,
                                    Get(cd, "employees")))

\* Variant of calculateValuations that reads the companyData of the latest
\* render instead of the one of the render that scheduled the timer
C22_CalculatesLatestProp(cd) ==
    valuationsFrom(companyData,
                   numericField(companyData, "revenue"),
                   numericField(companyData, "growthRate"),
                   numericField(companyData, "expenses"),
                   numericField(companyData, "customerCount"),
                   numericField(companyData, "churnRate"),
                   numericField(companyData, "cac"),
                   numericField(companyData, "ltv"))

\* what calculateValuations hands to setValuationResults, for the companyData cd
calculateValuations(cd) ==
    valuationsFrom(cd,
                   numericField(cd, "revenue"),
                   numericField(cd, "growthRate"),
                   numericField(cd, "expenses"),
                   numericField(cd, "customerCount"),
                   numericField(cd, "churnRate"),
                   numericField(cd, "cac"),
                   numericField(cd, "ltv"))

(***************************************************************************)
(* The companyData objects the component is given.                         *)
(***************************************************************************)
RECURSIVE Str(_)
\* String(i) for an integer i >= 0
Str(i) == IF i < 10 THEN << DigitChars[i + 1] >>
          ELSE Str(i \div 10) \o << DigitChars[(i % 10) + 1] >>

S_empty == << >>

S_abc == << "a", "b", "c" >>

S_mature == << "m", "a", "t", "u", "r", "e" >>

S_market == << "m", "a", "r", "k", "e", "t" >>

S_moderate == << "m", "o", "d", "e", "r", "a", "t", "e" >>

S_name == << "A", "c", "m", "e" >>

\* revenue and expenses run over 0, 500000, ... in MaxRevenueSteps and
\* MaxExpenseSteps steps
MaxRevenueSteps == 3

MaxExpenseSteps == 3

RequiredKeys == {"companyName", "revenue", "growthRate", "expenses", "employees",
                 "customerCount", "churnRate", "cac", "ltv"}

OptionalKeys == {"stage", "teamExperience", "productStage", "marketSize", "traction"}

\* the data the upload step pre-fills, with the form's qualitative defaults
BaseData ==
    [companyName |-> S_name, revenue |-> Str(5000000), growthRate |-> Str(35),
     expenses |-> Str(3500000), employees |-> Str(150), customerCount |-> Str(1200),
     churnRate |-> Str(8), cac |-> Str(1200), ltv |-> Str(5000),
     stage |-> S_growth, teamExperience |-> S_medium, productStage |-> S_market,
     marketSize |-> S_medium, traction |-> S_moderate]

\* o without the keys whose value is Absent
Absent == << "absent" >>

Without(o) == [key \in {x \in DOMAIN o : o[x] # Absent} |-> o[key]]

RevenueNumbers == {Str(k * 500000) : k \in 0..MaxRevenueSteps}

ExpenseNumbers == {Str(k * 500000) : k \in 0..MaxExpenseSteps}

RevenueTexts == RevenueNumbers \cup {S_empty, S_abc, << "-" >> \o Str(500000)}

StageTexts == {Absent, S_empty, S_idea, S_pre_revenue, S_growth, S_expansion, S_mature}

GrowthTexts == {S_empty, S_0, << "0", ".", "3", "5" >>, Str(10), Str(25), Str(35),
                << "-" >> \o Str(100)}

\* what the method selector reads
SelectorInputs ==
    {Without([BaseData EXCEPT !.revenue = r, !.stage = st, !.teamExperience = te,
                              !.productStage = ps]) :
        r \in RevenueTexts, st \in StageTexts,
        te \in {Absent, S_high, S_medium}, ps \in {Absent, S_mvp, S_market}}

\* what the VC and DCF methods read
FinancialInputs ==
    {[BaseData EXCEPT !.revenue = r, !.expenses = e, !.growthRate = g, !.stage = st] :
        r \in RevenueNumbers, e \in ExpenseNumbers \cup {S_empty},
        g \in GrowthTexts, st \in {S_growth, S_mature, S_pre_revenue}}

\* what the comparables method reads
ComparablesInputs ==
    {Without([BaseData EXCEPT !.revenue = r, !.expenses = e, !.customerCount = c,
                              !.employees = m, !.stage = S_mature]) :
        r \in {S_0, Str(1000000)}, e \in {S_0, Str(500000)},
        c \in {S_empty, S_0, Str(100), Str(1000)},
        m \in {Absent, S_empty, S_abc, S_0, Str(10)}}

\* what the premiums of the AI valuation read
PremiumInputs ==
    {[BaseData EXCEPT !.growthRate = g, !.churnRate = ch, !.cac = c, !.ltv = l] :
        g \in {S_empty, Str(10), Str(25), Str(35)},
        ch \in {S_empty, Str(3), Str(10)},
        c \in {S_empty, S_0, Str(1000)},
        l \in {S_empty, Str(3000), Str(3001)}}

NumericKeys == {"revenue", "growthRate", "expenses", "employees", "customerCount",
                "churnRate", "cac", "ltv"}

\* one numeric field, or all of them, absent, empty or not a number
MissingInputs ==
    {Without([key \in DOMAIN BaseData |->
                 IF key \in ks THEN v ELSE BaseData[key]]) :
        ks \in {{key} : key \in NumericKeys} \cup {NumericKeys},
        v \in {Absent, S_empty, S_abc}}

\* every numeric field zero
ZeroInputs ==
    {Without([key \in DOMAIN BaseData |->
                 IF key \in NumericKeys THEN z
                 ELSE IF key = "stage" THEN st
                 ELSE IF key = "teamExperience" THEN te
                 ELSE IF key = "productStage" THEN ps
                 ELSE BaseData[key]]) :
        z \in {S_0, << "0", ".", "0" >>},
        st \in StageTexts, te \in {Absent, S_high, S_medium},
        ps \in {Absent, S_mvp, S_market}}

\* objects with some optional keys left out and some fields left empty
SparseInputs ==
    {[key \in RequiredKeys \cup opt |->
         IF key \in emp THEN S_empty
         ELSE IF key = "revenue" THEN r
         ELSE BaseData[key]] :
        opt \in SUBSET OptionalKeys,
        emp \in {{}, {"ltv"}, {"ltv", "cac", "churnRate"},
                 {"ltv", "cac", "churnRate", "customerCount", "employees", "growthRate"}},
        r \in {S_0, Str(1000000)}}

\* the ids of valuationModels
valuationModelIds == {"berkus", "scorecard", "riskFactor", "vcMethod", "dcf", "comparables"}

Inputs == SelectorInputs \cup FinancialInputs \cup ComparablesInputs \cup PremiumInputs
          \cup MissingInputs \cup ZeroInputs \cup SparseInputs

(***************************************************************************)
(* The transitions of the component.                                       *)
(***************************************************************************)
MaxChanges == 3

NoData == [none |-> << >>]

NoRun == [data |-> NoData, results |-> [none |-> << >>]]

\* useState's initial values
InitialResults ==
    [berkus |-> Zero, scorecard |-> Zero, riskFactor |-> Zero, vcMethod |-> Zero,
     dcf |-> Zero, comparables |-> Zero, ucaas |-> Zero, ai |-> Zero,
     final |-> Zero, confidence |-> Zero, selectedMethod |-> "", methodology |-> ""]

\* the state after the first render and its effect: the spinner is on and
\* one timer is pending
Mounted(cd) ==
    /\ companyData = cd
    /\ valuationResults = InitialResults
    /\ selectedModel = ""
    /\ aiRecommendation = ""
    /\ calculating = TRUE
    /\ timers = << cd >>
    /\ computedFor = NoData
    /\ firstRun = NoRun
    /\ changes = 0

\* calculateValuations() of the render whose companyData is cd has computed
\* results: its setters and those of getAIRecommendation
Calculated(cd, results) ==
    /\ valuationResults' = results
    /\ selectedModel' = results.selectedMethod
    /\ aiRecommendation' = results.methodology
    /\ computedFor' = cd
    /\ firstRun' = IF firstRun = NoRun
                   THEN [data |-> cd, results |-> results]
                   ELSE firstRun

\* The oldest timer fires: calculateValuations() of the render that scheduled
\* it (getAIRecommendation's two setters included), then setCalculating(false)
TimerFires ==
    /\ timers # << >>
    /\ Calculated(Head(timers), calculateValuations(Head(timers)))
    /\ calculating' = FALSE
    /\ timers' = Tail(timers)
    /\ UNCHANGED << companyData, changes >>
    /\ UNCHANGED << callVars, mmvVars, formVars >>

\* the Valuation Range the overview shows: Conservative and Optimistic
rangeLow(results) == Min2(Min2(results.dcf, results.ucaas), results.ai)

rangeHigh(results) == Max2(Max2(results.dcf, results.ucaas), results.ai)

\* The parent renders the component with another companyData: the effect
\* runs again, setCalculating(true) and one more timer
CompanyDataChanges(cd) ==
    /\ changes < MaxChanges
    /\ cd # companyData
    /\ companyData' = cd
    /\ calculating' = TRUE
    /\ timers' = Append(timers, cd)
    /\ changes' = changes + 1
    /\ UNCHANGED << valuationResults, selectedModel, aiRecommendation,
                    computedFor, firstRun >>
    /\ UNCHANGED << callVars, mmvVars, formVars >>

\* a few companies, one for each method the selector can choose
FewInputs ==
    {BaseData,
     [BaseData EXCEPT !.revenue = Str(500000)],
     [BaseData EXCEPT !.revenue = S_0, !.stage = S_pre_revenue]}

(***************************************************************************)
(* One call of calculateValuations, one loop iteration or one statement    *)
(* after a loop at a time.                                                 *)
(***************************************************************************)
NoIterations ==
    [berkus |-> 0, scorecard |-> 0, risk |-> 0, projection |-> 0,
     discounting |-> 0, comparables |-> 0]

NothingComputed ==
    [berkus |-> Zero, scorecard |-> Zero, riskFactor |-> Zero, dcf |-> Zero,
     comparables |-> Zero]

\* no call is being followed
NotCalled ==
    /\ callData = NoData
    /\ pc = "idle"
    /\ index = 0
    /\ accumulator = Zero
    /\ cashFlows = << >>
    /\ computed = NothingComputed
    /\ iterations = NoIterations
    /\ steps = 0

\* calculateValuations() starts on cd: the reduce over berkusFactors begins
Called(cd) ==
    /\ callData = cd
    /\ pc = "berkus"
    /\ index = 0
    /\ accumulator = Zero
    /\ cashFlows = << >>
    /\ computed = NothingComputed
    /\ iterations = NoIterations
    /\ steps = 0

\* one callback of a reduce, or one pass of the loop, of the statement at
OneIteration(at) ==
    /\ iterations' = [iterations EXCEPT ![at] = @ + 1]
    /\ steps' = steps + 1
    /\ UNCHANGED << viewVars, mmvVars, formVars >>

\* the statement is over: on to the next one, its reduce starting from initial
NextStatement(next, initial) ==
    /\ pc' = next
    /\ index' = 0
    /\ accumulator' = initial
    /\ steps' = steps + 1
    /\ UNCHANGED << callData, iterations >>
    /\ UNCHANGED << viewVars, mmvVars, formVars >>

\* reduce((sum, factor) => sum + factor, 0) over berkusFactors, one entry
BerkusIteration ==
    /\ pc = "berkus"
    /\ index < Len(berkusFactors)
    /\ accumulator' = Add(accumulator, berkusFactors[index + 1])
    /\ index' = index + 1
    /\ OneIteration("berkus")
    /\ UNCHANGED << callData, pc, cashFlows, computed >>

\* berkusValue = sum / 5 * maxBerkusValue
BerkusDone ==
    /\ pc = "berkus"
    /\ index = Len(berkusFactors)
    /\ computed' = [computed EXCEPT
                       !.berkus = Mul(Div(accumulator, Num(5)), Num(maxBerkusValue))]
    /\ NextStatement("scorecard", Num(1))
    /\ UNCHANGED cashFlows

\* reduce((prod, factor) => prod * factor, 1) over scorecardFactors, one entry
ScorecardIteration ==
    /\ pc = "scorecard"
    /\ index < Len(scorecardFactors)
    /\ accumulator' = Mul(accumulator, scorecardFactors[index + 1])
    /\ index' = index + 1
    /\ OneIteration("scorecard")
    /\ UNCHANGED << callData, pc, cashFlows, computed >>

\* scorecardValue = regionAverage * scorecardMultiplier
ScorecardDone ==
    /\ pc = "scorecard"
    /\ index = Len(scorecardFactors)
    /\ computed' = [computed EXCEPT
                       !.scorecard = Mul(Num(regionAverage), accumulator)]
    /\ NextStatement("risk", Zero)
    /\ UNCHANGED cashFlows

\* reduce((sum, risk) => sum + risk, 0) over riskFactors, one entry
RiskIteration ==
    /\ pc = "risk"
    /\ index < Len(riskFactors)
    /\ accumulator' = Add(accumulator, riskFactors[index + 1])
    /\ index' = index + 1
    /\ OneIteration("risk")
    /\ UNCHANGED << callData, pc, cashFlows, computed >>

\* riskFactorValue = scorecardValue * (1 + sum * 0.25)
RiskDone ==
    /\ pc = "risk"
    /\ index = Len(riskFactors)
    /\ computed' = [computed EXCEPT
                       !.riskFactor = Mul(computed.scorecard,
                                          Add(Num(1), Mul(accumulator, Dec(25, 2))))]
    /\ NextStatement("projection", Zero)
    /\ UNCHANGED cashFlows

\* Variant of the loop bound that projects no year for a company without a
\* growth rate
C23_YearsOfGivenGrowth == IF Truthy(Get(callData, "growthRate")) THEN 5 ELSE 0

\* the last year of the projection loop: year <= 5
projectionYears == 5

\* projectedRevenue * (ebitda / revenue || 0.3) of a year
projectedEbitda(revenue, expenses, growthRate, year) ==
    Mul(Mul(revenue, MathPow(Add(Num(1), Div(growthRate, Num(100))), year)),
        ebitdaMargin(revenue, Sub(revenue, expenses)))

\* One pass of for (let year = 1; year <= 5; year++), year being index + 1
ProjectionIteration ==
    /\ pc = "projection"
    /\ index + 1 <= projectionYears
    /\ cashFlows' = Append(cashFlows,
                           projectedEbitda(numericField(callData, "revenue"),
                                           numericField(callData, "expenses"),
                                           numericField(callData, "growthRate"),
                                           index + 1))
    /\ index' = index + 1
    /\ OneIteration("projection")
    /\ UNCHANGED << callData, pc, accumulator, computed >>

\* The loop is left with year = 6
ProjectionDone ==
    /\ pc = "projection"
    /\ index + 1 > projectionYears
    /\ NextStatement("discounting", Zero)
    /\ UNCHANGED << cashFlows, computed >>

\* reduce((sum, cf, index) => sum + cf / Math.pow(1 + discountRate, index + 1), 0)
\* over projectedCashFlows, one entry
DiscountingIteration ==
    /\ pc = "discounting"
    /\ index < Len(cashFlows)
    /\ accumulator' = Add(accumulator,
                          Div(cashFlows[index + 1],
                              MathPow(Add(Num(1), discountRate), index + 1)))
    /\ index' = index + 1
    /\ OneIteration("discounting")
    /\ UNCHANGED << callData, pc, cashFlows, computed >>

\* projectedCashFlows[4], undefined when the array is shorter
lastCashFlow(cfs) == IF Len(cfs) >= 5 THEN cfs[5] ELSE NaN

\* dcfValue = sum + terminalValue / Math.pow(1 + discountRate, 5)
DiscountingDone ==
    /\ pc = "discounting"
    /\ index = Len(cashFlows)
    /\ computed' = [computed EXCEPT
                       !.dcf = Add(accumulator,
                                   Div(Div(Mul(lastCashFlow(cashFlows),
                                               Add(Num(1), terminalGrowth)),
                                           Sub(discountRate, terminalGrowth)),
                                       MathPow(Add(Num(1), discountRate), 5)))]
    /\ NextStatement("comparables", NegInfinity)
    /\ UNCHANGED cashFlows

\* the four arguments of Math.max
comparableAnchors(revenue, expenses, customerCount, employeesText) ==
    << Mul(revenue, revenueMultiple),
       Mul(Sub(revenue, expenses), Num(ebitdaMultiple)),
       Mul(customerCount, Num(customerMultiple)),
       Mul(employeesOf(employeesText), Num(employeeMultiple)) >>

\* Math.max takes one more argument
ComparablesIteration ==
    /\ pc = "comparables"
    /\ index < 4
    /\ accumulator' = Max2(accumulator,
                           comparableAnchors(numericField(callData, "revenue"),
                                             numericField(callData, "expenses"),
                                             numericField(callData, "customerCount"),
                                             Get(callData, "employees"))[index + 1])
    /\ index' = index + 1
    /\ OneIteration("comparables")
    /\ UNCHANGED << callData, pc, cashFlows, computed >>

\* comparablesValue is the result of Math.max; the statements that follow
\* have no loop
ComparablesDone ==
    /\ pc = "comparables"
    /\ index = 4
    /\ computed' = [computed EXCEPT !.comparables = accumulator]
    /\ NextStatement("done", Zero)
    /\ UNCHANGED cashFlows

(***************************************************************************)
(* FileUploadSection of AuthWrapper: the steps Upload (1), Data Review (2) *)
(* and Valuation Methods (3).                                              *)
(***************************************************************************)
S_retail == << "r", "e", "t", "a", "i", "l" >>

S_gas_station == << "g", "a", "s", "_", "s", "t", "a", "t", "i", "o", "n" >>

S_sample ==
    << "S", "a", "m", "p", "l", "e", " ", "U", "C", "a", "a", "S", " ", "C", "o", "r", "p" >>

MaxFiles == 2

\* useState's initial manualData
initialManualData ==
    [companyName |-> S_empty, revenue |-> S_empty, growthRate |-> S_empty,
     expenses |-> S_empty, industry |-> S_retail, subIndustry |-> S_gas_station,
     employees |-> S_empty, marketShare |-> S_empty, customerCount |-> S_empty,
     churnRate |-> S_empty, cac |-> S_empty, ltv |-> S_empty, stage |-> S_growth,
     teamExperience |-> S_medium, productStage |-> S_market,
     marketSize |-> S_medium, traction |-> S_moderate]

\* no handleUpload call awaits a response
NoUpload == [none |-> << >>]

\* the state after the first render
FormOpened ==
    /\ currentStep = 1
    /\ manualData = initialManualData
    /\ files = 0
    /\ uploading = FALSE
    /\ uploadComplete = FALSE
    /\ captured = NoUpload
    /\ lastHandler = "none"

\* handleFileChange: the files chosen in the file input of step 1
HandleFileChange(count) ==
    /\ currentStep = 1
    /\ files' = count
    /\ lastHandler' = "handleFileChange"
    /\ UNCHANGED << currentStep, manualData, uploading, uploadComplete, captured >>
    /\ UNCHANGED << viewVars, callVars, mmvVars >>

\* handleUpload up to its await: the button is shown in step 1 with files
\* chosen and disabled while uploading; the call keeps the manualData of
\* its render
HandleUpload ==
    /\ currentStep = 1
    /\ files > 0
    /\ ~uploading
    /\ uploading' = TRUE
    /\ captured' = manualData
    /\ lastHandler' = "handleUpload"
    /\ UNCHANGED << currentStep, manualData, files, uploadComplete >>
    /\ UNCHANGED << viewVars, callVars, mmvVars >>

\* { ...manualData, companyName: 'Sample UCaaS Corp', revenue: '5000000', ... }
prefilled(data) ==
    [data EXCEPT !.companyName = S_sample, !.revenue = Str(5000000),
                 !.growthRate = Str(35), !.expenses = Str(3500000),
                 !.employees = Str(150), !.customerCount = Str(1200),
                 !.churnRate = Str(8), !.cac = Str(1200), !.ltv = Str(5000)]

\* handleUpload after its await, response.ok: step 2 with the sample data
\* over the captured manualData, whatever step the user is at by now
UploadSucceeds ==
    /\ captured # NoUpload
    /\ uploadComplete' = TRUE
    /\ currentStep' = 2
    /\ files' = 0
    /\ manualData' = prefilled(captured)
    /\ uploading' = FALSE
    /\ captured' = NoUpload
    /\ lastHandler' = "handleUpload"
    /\ UNCHANGED << viewVars, callVars, mmvVars >>

\* handleUpload after its await, the response not ok or the fetch rejected:
\* an alert
UploadFails ==
    /\ captured # NoUpload
    /\ uploading' = FALSE
    /\ captured' = NoUpload
    /\ lastHandler' = "handleUpload"
    /\ UNCHANGED << currentStep, manualData, files, uploadComplete >>
    /\ UNCHANGED << viewVars, callVars, mmvVars >>

\* Skip upload and enter data manually
SkipUpload ==
    /\ currentStep = 1
    /\ currentStep' = 2
    /\ lastHandler' = "skip"
    /\ UNCHANGED << manualData, files, uploading, uploadComplete, captured >>
    /\ UNCHANGED << viewVars, callVars, mmvVars >>

\* the texts the user types in the fields of step 2
typedTexts ==
    [companyName |-> {S_empty, S_name},
     revenue |-> {S_empty, S_0, Str(500000)},
     growthRate |-> {S_empty, Str(35)}]

\* onChange of a field of step 2: setManualData({ ...manualData, [key]: text })
EditField(key, text) ==
    /\ currentStep = 2
    /\ manualData' = [manualData EXCEPT ![key] = text]
    /\ lastHandler' = "onChange"
    /\ UNCHANGED << currentStep, files, uploading, uploadComplete, captured >>
    /\ UNCHANGED << viewVars, callVars, mmvVars >>

\* Back to Upload
BackToUpload ==
    /\ currentStep = 2
    /\ currentStep' = 1
    /\ lastHandler' = "back"
    /\ UNCHANGED << manualData, files, uploading, uploadComplete, captured >>
    /\ UNCHANGED << viewVars, callVars, mmvVars >>

\* Variant of proceedToValuation that refuses only when both fields are empty
C30_RefusesWhenBothEmpty ==
    /\ currentStep = 2
    /\ currentStep' = IF ~Truthy(manualData.companyName) /\ ~Truthy(manualData.revenue)
                      THEN currentStep ELSE 3
    /\ lastHandler' = "proceedToValuation"
    /\ UNCHANGED << manualData, files, uploading, uploadComplete, captured >>
    /\ UNCHANGED << viewVars, callVars, mmvVars >>

\* proceedToValuation, the handler of the button of step 2: an alert and
\* nothing else without a company name or a revenue
ProceedToValuation ==
    /\ currentStep = 2
    /\ currentStep' = IF ~Truthy(manualData.companyName) \/ ~Truthy(manualData.revenue)
                      THEN currentStep ELSE 3
    /\ lastHandler' = "proceedToValuation"
    /\ UNCHANGED << manualData, files, uploading, uploadComplete, captured >>
    /\ UNCHANGED << viewVars, callVars, mmvVars >>

(***************************************************************************)
(* The local engine of MultiModelValuation: getAIRecommendation and        *)
(* calculateValuations of that component.                                  *)
(***************************************************************************)
\* the branches of getAIRecommendation, on the parsed revenue
mmvRecommendation(revenue, stage, teamExp, productStage) ==
    CASE ~Gt(revenue, Zero) /\ stage \in {S_idea, S_pre_revenue} ->
            IF teamExp = S_high /\ productStage = S_mvp
            THEN [model |-> "scorecard",
                  reasoning |-> "Early-stage startup with strong team and MVP - Scorecard method provides market-based comparison"]
            ELSE [model |-> "berkus",
                  reasoning |-> "Pre-revenue startup - Berkus method ideal for qualitative assessment"]
      [] Gt(revenue, Zero) /\ Lt(revenue, Num(1000000)) ->
            [model |-> "riskFactor",
             reasoning |-> "Early revenue stage - Risk Factor Summation provides comprehensive risk-adjusted valuation"]
      [] Gt(revenue, Zero) /\ Ge(revenue, Num(1000000)) ->
            IF stage \in {S_growth, S_expansion}
            THEN [model |-> "dcf",
                  reasoning |-> "Established revenue - DCF analysis provides accurate cash flow-based valuation"]
            ELSE [model |-> "comparables",
                  reasoning |-> "Mature company - Market comparables provide industry-standard valuation"]
      [] OTHER ->
            [model |-> "scorecard",
             reasoning |-> "Default recommendation - Scorecard method provides balanced startup valuation"]

\* parseFloat(companyData[key]) || fallback
mmvParsed(cd, key, fallback) == OrElse(parseFloat(Get(cd, key)), fallback)

mmvGetAIRecommendation(cd) ==
    mmvRecommendation(mmvParsed(cd, "revenue", Zero),
                      StrOr(Get(cd, "stage"), S_unknown),
                      StrOr(Get(cd, "teamExperience"), S_medium),
                      StrOr(Get(cd, "productStage"), S_development))

\* (0.5 + 0.7 + 0.8 + 0.6 + 0.5) / 5 * 2000000
mmvBerkusValue ==
    Mul(Div(Add(Add(Add(Add(Add(Zero, Dec(5, 1)), Dec(7, 1)), Dec(8, 1)), Dec(6, 1)),
                Dec(5, 1)),
            Num(5)),
        Num(2000000))

\* 2000000 * (1.25 * 1.0 * 1.1 * 0.9 * 1.05 * 0.95 * 1.0)
mmvScorecardValue ==
    Mul(Num(2000000),
        Mul(Mul(Mul(Mul(Mul(Mul(Mul(Num(1), Dec(125, 2)), Num(1)), Dec(11, 1)),
                        Dec(9, 1)),
                    Dec(105, 2)),
                Dec(95, 2)),
            Num(1)))

\* the sum of the twelve risk factors: two of -1, three of 1, seven of 0
mmvRiskSum ==
    Add(Add(Add(Add(Add(Add(Add(Add(Add(Add(Add(Add(Zero, Num(0)), Num(-1)), Num(0)),
                                        Num(0)),
                                    Num(1)),
                                Num(0)),
                            Num(-1)),
                        Num(1)),
                    Num(0)),
                Num(0)),
            Num(1)),
        Num(0))

\* scorecardValue * (1 + riskAdjustment)
mmvRiskFactorValue == Mul(mmvScorecardValue, Add(Num(1), Mul(mmvRiskSum, Dec(25, 2))))

\* Math.pow(1 + growthRate / 100, years)
mmvGrowth(growthRate, years) == MathPow(Add(Num(1), Div(growthRate, Num(100))), years)

\* projectedExitValue / requiredROI * (1 - investorShare)
mmvVcValue(revenue, growthRate) ==
    Mul(Div(Mul(OrElse(Mul(revenue, mmvGrowth(growthRate, 5)), Num(10000000)), Num(15)),
            Num(10)),
        Sub(Num(1), Dec(25, 2)))

\* the cash flow the loop pushes for a year
mmvCashFlow(revenue, expenses, growthRate, year) ==
    Mul(Mul(revenue, mmvGrowth(growthRate, year)),
        OrElse(Div(Sub(revenue, expenses), revenue), Dec(3, 1)))

\* cf / Math.pow(1 + discountRate, year)
mmvDiscounted(cf, year) == Div(cf, MathPow(Add(Num(1), Dec(12, 2)), year))

\* the reduce over the five cash flows
mmvDiscountedFlows(revenue, expenses, growthRate) ==
    Add(Add(Add(Add(Add(Zero,
                        mmvDiscounted(mmvCashFlow(revenue, expenses, growthRate, 1), 1)),
                    mmvDiscounted(mmvCashFlow(revenue, expenses, growthRate, 2), 2)),
                mmvDiscounted(mmvCashFlow(revenue, expenses, growthRate, 3), 3)),
            mmvDiscounted(mmvCashFlow(revenue, expenses, growthRate, 4), 4)),
        mmvDiscounted(mmvCashFlow(revenue, expenses, growthRate, 5), 5))

\* projectedCashFlows[4] * (1 + terminalGrowth) / (discountRate - terminalGrowth)
mmvTerminalValue(cf) ==
    Div(Mul(cf, Add(Num(1), Dec(3, 2))), Sub(Dec(12, 2), Dec(3, 2)))

mmvDcfValue(revenue, expenses, growthRate) ==
    Add(mmvDiscountedFlows(revenue, expenses, growthRate),
        mmvDiscounted(mmvTerminalValue(mmvCashFlow(revenue, expenses, growthRate, 5)), 5))

\* Math.max of the four multiples
mmvComparablesValue(revenue, expenses, customerCount, employeesText) ==
    Max2(Max2(Max2(Mul(revenue, Dec(125, 1)),
                   Mul(Sub(revenue, expenses), Num(35))),
              Mul(customerCount, Num(4200))),
         Mul(parseFloat(StrOr(employeesText, S_0)), Num(500000)))

mmvMethodValues(revenue, expenses, growthRate, customerCount, employeesText) ==
    [berkus |-> mmvBerkusValue,
     scorecard |-> mmvScorecardValue,
     riskFactor |-> mmvRiskFactorValue,
     vcMethod |-> mmvVcValue(revenue, growthRate),
     dcf |-> mmvDcfValue(revenue, expenses, growthRate),
     comparables |-> mmvComparablesValue(revenue, expenses, customerCount, employeesText)]

\* methodValues[recommendation.model] || scorecardValue
mmvFinalValue(methodValues, model) ==
    IF model \in DOMAIN methodValues
    THEN OrElse(methodValues[model], mmvScorecardValue)
    ELSE mmvScorecardValue

\* Math.min(95, Math.max(60, dataCompleteness * methodConfidence * 100))
mmvConfidence(cd, revenue) ==
    Min2(Num(95),
         Max2(Num(60),
              Mul(Mul(Div(Num(Cardinality({key \in DOMAIN cd : Truthy(cd[key])})),
                          Num(Cardinality(DOMAIN cd))),
                      IF Gt(revenue, Zero) THEN Dec(9, 1) ELSE Dec(7, 1)),
                  Num(100))))

\* the object handed to setValuationResults
mmvResultsOf(methodValues, recommendation, confidence) ==
    [berkus |-> MathRound(methodValues.berkus),
     scorecard |-> MathRound(methodValues.scorecard),
     riskFactor |-> MathRound(methodValues.riskFactor),
     vcMethod |-> MathRound(methodValues.vcMethod),
     dcf |-> MathRound(methodValues.dcf),
     comparables |-> MathRound(methodValues.comparables),
     final |-> MathRound(mmvFinalValue(methodValues, recommendation.model)),
     confidence |-> MathRound(confidence),
     selectedMethod |-> recommendation.model,
     methodology |-> recommendation.reasoning]

mmvValuationsFrom(cd, revenue, growthRate, expenses, customerCount) ==
    mmvResultsOf(mmvMethodValues(revenue, expenses, growthRate, customerCount,
                                 Get(cd, "employees")),
                 mmvGetAIRecommendation(cd),
                 mmvConfidence(cd, revenue))

\* Variant of calculateValuations without the default growth rate of 35
C29_WithoutGrowthDefault(cd) ==
    mmvValuationsFrom(cd,
                      mmvParsed(cd, "revenue", Zero),
                      mmvParsed(cd, "growthRate", Zero),
                      mmvParsed(cd, "expenses", Zero),
                      mmvParsed(cd, "customerCount", Zero))

\* what calculateValuations hands to setValuationResults
mmvCalculateValuations(cd) ==
    mmvValuationsFrom(cd,
                      mmvParsed(cd, "revenue", Zero),
                      mmvParsed(cd, "growthRate", Num(35)),
                      mmvParsed(cd, "expenses", Zero),
                      mmvParsed(cd, "customerCount", Zero))

(***************************************************************************)
(* The MultiModelValuation component.                                      *)
(***************************************************************************)
MaxClicks == 2

\* the ids of valuationModels
mmvModelIds == {"berkus", "scorecard", "riskFactor", "vcMethod", "dcf", "comparables"}

\* useState's initial valuationResults
mmvInitialResults ==
    [berkus |-> Zero, scorecard |-> Zero, riskFactor |-> Zero, vcMethod |-> Zero,
     dcf |-> Zero, comparables |-> Zero, final |-> Zero, confidence |-> Zero,
     selectedMethod |-> "", methodology |-> ""]

\* the component is not on screen
MmvNotMounted ==
    /\ mmvCompanyData = NoData
    /\ activeView = "selection"
    /\ mmvSelectedModel = ""
    /\ mmvAiRecommendation = ""
    /\ mmvValuationResults = mmvInitialResults
    /\ pending = "none"
    /\ outcome = "none"
    /\ clicks = 0

\* the state after the first render and its effect, getAIRecommendation()
MmvMounted(cd) ==
    /\ mmvCompanyData = cd
    /\ activeView = "selection"
    /\ mmvSelectedModel = mmvGetAIRecommendation(cd).model
    /\ mmvAiRecommendation = mmvGetAIRecommendation(cd).reasoning
    /\ mmvValuationResults = mmvInitialResults
    /\ pending = "none"
    /\ outcome = "none"
    /\ clicks = 0

\* A click on a card of the method grid: setSelectedModel(model.id)
SelectModel(id) ==
    /\ mmvCompanyData # NoData
    /\ activeView = "selection"
    /\ mmvSelectedModel' = id
    /\ UNCHANGED << mmvCompanyData, activeView, mmvAiRecommendation,
                    mmvValuationResults, pending, outcome, clicks >>
    /\ UNCHANGED << viewVars, callVars, formVars >>

\* A click on Calculate Valuation, disabled without a selected model:
\* setActiveView('calculating') and the request to the backend
ClickCalculate ==
    /\ mmvCompanyData # NoData
    /\ activeView = "selection"
    /\ mmvSelectedModel # ""
    /\ clicks < MaxClicks
    /\ activeView' = "calculating"
    /\ pending' = "request"
    /\ clicks' = clicks + 1
    /\ UNCHANGED << mmvCompanyData, mmvSelectedModel, mmvAiRecommendation,
                    mmvValuationResults, outcome >>
    /\ UNCHANGED << viewVars, callVars, formVars >>

\* the keys of data.data.results and the valuationResults field of each
backendMethods ==
    [berkus |-> "berkus", scorecard |-> "scorecard", risk_factor |-> "riskFactor",
     vc_method |-> "vcMethod", dcf |-> "dcf", comparables |-> "comparables"]

\* The bodies a backend answers with success: one valuation and one
\* confidence for each method, the method it recommends and that method's
\* valuation
successBodies ==
    {[results |-> [m \in DOMAIN backendMethods |->
                      [valuation |-> IF m = low THEN Num(1000000) ELSE Num(3000000),
                       confidence |-> IF m = low THEN Num(70) ELSE Num(85)]],
      recommended_method |-> rec,
      recommended_valuation |-> IF rec = low THEN Num(1000000) ELSE Num(3000000)] :
        rec \in DOMAIN backendMethods, low \in {"dcf", "comparables"}}

\* what the handler hands to setValuationResults for a success body
resultsOfBody(data) ==
    [berkus |-> data.results.berkus.valuation,
     scorecard |-> data.results.scorecard.valuation,
     riskFactor |-> data.results.risk_factor.valuation,
     vcMethod |-> data.results.vc_method.valuation,
     dcf |-> data.results.dcf.valuation,
     comparables |-> data.results.comparables.valuation,
     final |-> data.recommended_valuation,
     confidence |-> data.results[data.recommended_method].confidence,
     selectedMethod |-> data.recommended_method,
     methodology |-> "AI selected " \o data.recommended_method
                     \o " as the most appropriate method based on company stage and data availability."]

\* The backend answers with data.success and a well-formed body: the
\* results are its results and the view is 'results'
BackendSucceeds(data) ==
    /\ pending = "request"
    /\ mmvValuationResults' = resultsOfBody(data)
    /\ mmvSelectedModel' = data.recommended_method
    /\ activeView' = "results"
    /\ pending' = "none"
    /\ outcome' = "success"
    /\ UNCHANGED << mmvCompanyData, mmvAiRecommendation, clicks >>
    /\ UNCHANGED << viewVars, callVars, formVars >>

\* how a request ends without results: the backend reports an error, the
\* body lacks a field the handler reads (a TypeError inside then), or the
\* fetch or response.json() rejects
failures == {"error", "malformed", "failed"}

\* Variant of the failure handling without the catch: a TypeError thrown
\* inside then schedules nothing
C27_WithoutCatch(kind) ==
    /\ pending = "request"
    /\ pending' = IF kind = "error" THEN "timer" ELSE "none"
    /\ outcome' = kind
    /\ UNCHANGED << mmvCompanyData, activeView, mmvSelectedModel,
                    mmvAiRecommendation, mmvValuationResults, clicks >>
    /\ UNCHANGED << viewVars, callVars, formVars >>

\* The request ends without results: the else branch or the catch schedules
\* the local calculation in 2 seconds
RequestFails(kind) ==
    /\ pending = "request"
    /\ pending' = "timer"
    /\ outcome' = kind
    /\ UNCHANGED << mmvCompanyData, activeView, mmvSelectedModel,
                    mmvAiRecommendation, mmvValuationResults, clicks >>
    /\ UNCHANGED << viewVars, callVars, formVars >>

\* the setters of calculateValuations() and of the getAIRecommendation() it calls
mmvCalculated(results) ==
    /\ mmvValuationResults' = results
    /\ mmvSelectedModel' = results.selectedMethod
    /\ mmvAiRecommendation' = results.methodology

\* The fallback timer fires: calculateValuations() and setActiveView('results')
FallbackTimerFires ==
    /\ pending = "timer"
    /\ mmvCalculated(mmvCalculateValuations(mmvCompanyData))
    /\ activeView' = "results"
    /\ pending' = "none"
    /\ UNCHANGED << mmvCompanyData, outcome, clicks >>
    /\ UNCHANGED << viewVars, callVars, formVars >>

\* A click on Change Method: setActiveView('selection')
ChangeMethod ==
    /\ activeView = "results"
    /\ activeView' = "selection"
    /\ UNCHANGED << mmvCompanyData, mmvSelectedModel, mmvAiRecommendation,
                    mmvValuationResults, pending, outcome, clicks >>
    /\ UNCHANGED << viewVars, callVars, formVars >>

\* the view is not mounted
ViewNotMounted ==
    /\ companyData = NoData
    /\ valuationResults = InitialResults
    /\ selectedModel = ""
    /\ aiRecommendation = ""
    /\ calculating = FALSE
    /\ timers = << >>
    /\ computedFor = NoData
    /\ firstRun = NoRun
    /\ changes = 0

\* the companies MultiModelValuation is followed on: one for each method of
\* the selector and one whose selected DCF value is 0
MmvInputs ==
    FewInputs \cup
    {[BaseData EXCEPT !.stage = S_mature],
     [BaseData EXCEPT !.revenue = Str(1000000), !.expenses = Str(500000),
                      !.growthRate = << "-" >> \o Str(100)]}

InitMMV ==
    /\ ViewNotMounted
    /\ NotCalled
    /\ FormOpened
    /\ \E cd \in MmvInputs : MmvMounted(cd)

NextMMV ==
    \/ \E id \in mmvModelIds : SelectModel(id)
    \/ ClickCalculate
    \/ \E data \in successBodies : BackendSucceeds(data)
    \/ \E kind \in failures : RequestFails(kind)
    \/ FallbackTimerFires
    \/ ChangeMethod

\* the pending request is settled
RequestSettles == pending = "request" /\ pending' \in {"timer", "none"}

\* the pending timer callback runs
TimerRuns == pending = "timer" /\ pending' = "none"

\* A fetch is settled in the end and a timer set for 2 seconds fires
SpecMMV ==
    InitMMV /\ [][NextMMV]_vars /\ WF_pending(RequestSettles) /\ WF_pending(TimerRuns)

\* the companies the two engines are compared on
EngineInputs ==
    MmvInputs \cup ComparablesInputs \cup MissingInputs \cup
    {Without([BaseData EXCEPT !.revenue = r, !.stage = st, !.teamExperience = te,
                              !.productStage = S_mvp]) :
        r \in {S_0, S_abc, Str(500000)}, st \in {S_idea, S_mature, Absent},
        te \in {S_high, S_medium}}

\* Both components are given the same companyData; the backend is down
InitEngines ==
    /\ NotCalled
    /\ FormOpened
    /\ \E cd \in EngineInputs : Mounted(cd) /\ MmvMounted(cd)

NextEngines ==
    \/ TimerFires
    \/ ClickCalculate
    \/ \E kind \in failures : RequestFails(kind)
    \/ FallbackTimerFires

SpecEngines == InitEngines /\ [][NextEngines]_vars

InitForm == ViewNotMounted /\ NotCalled /\ MmvNotMounted /\ FormOpened

NextForm ==
    \/ \E count \in 0..MaxFiles : HandleFileChange(count)
    \/ HandleUpload
    \/ UploadSucceeds
    \/ UploadFails
    \/ SkipUpload
    \/ \E key \in DOMAIN typedTexts : \E text \in typedTexts[key] : EditField(key, text)
    \/ BackToUpload
    \/ ProceedToValuation

SpecForm == InitForm /\ [][NextForm]_vars

\* the companies a call is followed on
CallInputs ==
    FewInputs \cup
    {[BaseData EXCEPT !.revenue = S_abc],
     [BaseData EXCEPT !.expenses = BaseData.revenue],
     [BaseData EXCEPT !.employees = S_abc],
     [BaseData EXCEPT !.growthRate = S_empty],
     Without([BaseData EXCEPT !.employees = Absent])}

InitCall ==
    /\ \E cd \in FewInputs : Mounted(cd)
    /\ \E cd \in CallInputs : Called(cd)
    /\ MmvNotMounted
    /\ FormOpened

NextCall ==
    \/ BerkusIteration \/ BerkusDone
    \/ ScorecardIteration \/ ScorecardDone
    \/ RiskIteration \/ RiskDone
    \/ ProjectionIteration \/ ProjectionDone
    \/ DiscountingIteration \/ DiscountingDone
    \/ ComparablesIteration \/ ComparablesDone

\* the call is at a statement and executes it
CallAdvances == pc \notin {"idle", "done"} /\ steps' = steps + 1

\* A call is synchronous: the statement it is at is always executed
SpecCall == InitCall /\ [][NextCall]_vars /\ WF_steps(CallAdvances)

Init == (\E cd \in FewInputs : Mounted(cd)) /\ NotCalled /\ MmvNotMounted /\ FormOpened

Next == TimerFires \/ \E cd \in FewInputs : CompanyDataChanges(cd)

Spec == Init /\ [][Next]_vars

\* One calculation for each companyData of Inputs: the prop never changes
InitCalc == (\E cd \in Inputs : Mounted(cd)) /\ NotCalled /\ MmvNotMounted /\ FormOpened

NextCalc == TimerFires

SpecCalc == InitCalc /\ [][NextCalc]_vars

(***************************************************************************)
(* Properties.  Done holds once a calculation has set the results;         *)
(* MethodKeys are the keys of methodValues.                                *)
(***************************************************************************)
Done == computedFor # NoData

MethodKeys ==
    {"berkus", "scorecard", "riskFactor", "vcMethod", "dcf", "comparables", "ucaas", "ai"}

\* the confidence of cd before the clamps and Math.round
RawConfidence(cd) ==
    Mul(Mul(dataCompleteness(cd), methodConfidence(numericField(cd, "revenue"))),
        Num(100))

\* C1: after a calculation, for every companyData, the confidence is an
\* integer and lies in the closed band [60, 95].
C1_ConfidenceInBand ==
    Done => /\ IsInteger(valuationResults.confidence)
            /\ Ge(valuationResults.confidence, Num(60))
            /\ Le(valuationResults.confidence, Num(95))

\* C1 witness: a calculation whose unclamped confidence is below 60 and is
\* reported as 60
C1_FloorReached ==
    /\ Done
    /\ Lt(RawConfidence(computedFor), Num(60))
    /\ valuationResults.confidence = Num(60)

\* v is the text of a number >= 0
NonNegativeText(v) == IsFinite(parseFloat(v)) /\ Ge(parseFloat(v), Zero)

\* C2: when revenue, expenses, growth rate, customer count and headcount are
\* non-negative numbers, the value of every method is >= 0.
C2_MethodValuesNonNegative ==
    ( /\ Done
      /\ \A key \in {"revenue", "expenses", "growthRate", "customerCount", "employees"} :
            NonNegativeText(Get(computedFor, key)) )
    => \A m \in MethodKeys : Ge(valuationResults[m], Zero)

\* C3: every method value and the final valuation is a finite number, and
\* with revenue 0 the DCF value is a number >= 0, whatever the expenses.
C3_ValuesFinite ==
    Done => /\ \A m \in MethodKeys \cup {"final"} : IsFinite(valuationResults[m])
            /\ numericField(computedFor, "revenue") = Zero
                  => Ge(valuationResults.dcf, Zero)

\* C4: once the results are shown, the final valuation lies between the
\* Conservative and the Optimistic value of the Valuation Range.
C4_FinalInsideRange ==
    (Done /\ ~calculating)
    => /\ Le(rangeLow(valuationResults), valuationResults.final)
       /\ Le(valuationResults.final, rangeHigh(valuationResults))

\* the method the ordered rule list gives, first match wins
C5_RuleList(revenue, stage, teamExp, productStage) ==
    CASE ~Gt(revenue, Zero) /\ stage \in {S_idea, S_pre_revenue} ->
            IF teamExp = S_high /\ productStage = S_mvp THEN "scorecard" ELSE "berkus"
      [] Gt(revenue, Zero) /\ Lt(revenue, Num(1000000)) -> "riskFactor"
      [] Ge(revenue, Num(1000000)) /\ stage \in {S_growth, S_expansion} -> "dcf"
      [] Ge(revenue, Num(1000000)) /\ stage \notin {S_growth, S_expansion} -> "comparables"
      [] OTHER -> "scorecard"

\* C5: the method getAIRecommendation returns (and puts in selectedModel) is
\* the one the ordered rule list gives for the revenue, stage, team
\* experience and product maturity of the companyData.
C5_SelectionFollowsRules ==
    Done => /\ selectedModel =
                 C5_RuleList(numericField(computedFor, "revenue"),
                             StrOr(Get(computedFor, "stage"), S_unknown),
                             StrOr(Get(computedFor, "teamExperience"), S_medium),
                             StrOr(Get(computedFor, "productStage"), S_development))
            /\ valuationResults.selectedMethod = selectedModel

\* C5 witness: a calculation for which no rule matched: revenue is not > 0 and
\* the stage is neither idea nor pre-revenue, and scorecard is selected
C5_NoRuleMatched ==
    /\ Done
    /\ ~Gt(numericField(computedFor, "revenue"), Zero)
    /\ Get(computedFor, "stage") \notin {S_idea, S_pre_revenue}
    /\ selectedModel = "scorecard"

\* the six method/justification pairs of the branches
C6_Pairs ==
    { << "scorecard", "Early-stage startup with strong team and MVP - Scorecard method provides market-based comparison" >>,
      << "berkus", "Pre-revenue startup - Berkus method ideal for qualitative assessment" >>,
      << "riskFactor", "Early revenue stage - Risk Factor Summation provides comprehensive risk-adjusted valuation" >>,
      << "dcf", "Established revenue - DCF analysis provides accurate cash flow-based valuation" >>,
      << "comparables", "Mature company - Market comparables provide industry-standard valuation" >>,
      << "scorecard", "Default recommendation - Scorecard method provides balanced startup valuation" >> }

\* C6: the selection is never empty: the selected method is one of the ids of
\* valuationModels and comes with the justification of its branch, one of
\* six fixed pairs; the result carries the same pair.
C6_SelectionPaired ==
    Done => /\ selectedModel \in valuationModelIds
            /\ << selectedModel, aiRecommendation >> \in C6_Pairs
            /\ valuationResults.selectedMethod = selectedModel
            /\ valuationResults.methodology = aiRecommendation
            /\ (aiRecommendation = "Early-stage startup with strong team and MVP - Scorecard method provides market-based comparison")
                  <=> /\ Get(computedFor, "teamExperience") = S_high
                      /\ Get(computedFor, "productStage") = S_mvp
                      /\ Get(computedFor, "stage") \in {S_idea, S_pre_revenue}
                      /\ ~Gt(numericField(computedFor, "revenue"), Zero)

\* C6 witness: the scorecard branch of an early-stage company with a strong
\* team and an MVP
C6_StrongTeamBranch ==
    /\ Done
    /\ selectedModel = "scorecard"
    /\ aiRecommendation = "Early-stage startup with strong team and MVP - Scorecard method provides market-based comparison"

\* C7: the final valuation is the value of the selected method.
C7_FinalIsSelectedValue ==
    Done => valuationResults.final = valuationResults[valuationResults.selectedMethod]

AllZero(cd) == \A key \in NumericKeys : parseFloat(Get(cd, key)) = Zero

\* C9: when every numeric field is zero, whatever the stage and the
\* qualitative settings, the result is complete: every method value, the
\* final valuation and the confidence are finite numbers and a method is
\* selected.
C9_AllZeroComplete ==
    (Done /\ AllZero(computedFor))
    => /\ \A m \in MethodKeys \cup {"final", "confidence"} :
             IsFinite(valuationResults[m])
       /\ valuationResults.selectedMethod \in valuationModelIds
       /\ valuationResults.methodology # ""

\* C9 witness: an all-zero calculation: the DCF value is 0 by the 0.3 margin
\* and the venture-capital value is that of the 10,000,000 projection
C9_AllZeroCalculated ==
    /\ Done
    /\ AllZero(computedFor)
    /\ valuationResults.dcf = Zero
    /\ valuationResults.vcMethod = Num(11250000)

\* v is absent, empty or not the text of a number
Unusable(v) == v = Undefined \/ v = << >> \/ IsNaN(parseFloat(v))

\* C10: a numeric field that is absent, empty or unparseable is treated as 0.
C10_UnusableTreatedAsZero ==
    Done => /\ \A key \in DOMAIN fieldDefault :
                  Unusable(Get(computedFor, key)) => numericField(computedFor, key) = Zero
            /\ Unusable(Get(computedFor, "employees"))
                  => employeesOf(Get(computedFor, "employees")) = Zero

\* a and b have the same venture-capital, DCF and AI values
C11_SameValues(a, b) == a.vcMethod = b.vcMethod /\ a.dcf = b.dcf /\ a.ai = b.ai

\* C11: percent-like inputs are brought to one convention: a growth rate
\* given as the fraction 0.35 yields the venture-capital, DCF and AI values
\* of the same companyData with the growth rate given as 35.
C11_PercentConventionsAgree ==
    (Done /\ Get(computedFor, "growthRate") = << "0", ".", "3", "5" >>)
    => C11_SameValues(valuationResults,
                      calculateValuations([computedFor EXCEPT !.growthRate = Str(35)]))

\* C12: a companyData without a stage (absent or empty) is given the method
\* of stage growth, and one without team experience that of medium; with
\* revenue >= 1,000,000 and no stage that method is dcf.
C12_MissingStageIsGrowth ==
    (Done /\ ~Truthy(Get(computedFor, "stage")))
    => selectedModel =
          C5_RuleList(numericField(computedFor, "revenue"),
                      S_growth,
                      StrOr(Get(computedFor, "teamExperience"), S_medium),
                      StrOr(Get(computedFor, "productStage"), S_development))

\* the growth rate text g is a number above the growth rate text of cd
C13_HigherGrowth(cd, g) ==
    /\ IsFinite(parseFloat(Get(cd, "growthRate")))
    /\ IsFinite(parseFloat(g))
    /\ Lt(parseFloat(Get(cd, "growthRate")), parseFloat(g))

\* C13: with revenue > 0 and every other field fixed, the DCF value does not
\* decrease when the growth rate is raised, for growth rates from 0 on.
C13_DcfMonotoneInGrowth ==
    (Done /\ Gt(numericField(computedFor, "revenue"), Zero))
    => \A g \in GrowthTexts :
          C13_HigherGrowth(computedFor, g)
          => Le(valuationResults.dcf,
                MathRound(dcfValue(numericField(computedFor, "revenue"),
                                   numericField(computedFor, "expenses"),
                                   numericField([growthRate |-> g], "growthRate"))))

\* the four anchor estimates of the comparables method, the headcount being
\* the number the employees text gives, 0 when it gives none
C14_Anchors(cd) ==
    << Mul(numericField(cd, "revenue"), Dec(125, 1)),
       Mul(Sub(numericField(cd, "revenue"), numericField(cd, "expenses")), Num(35)),
       Mul(numericField(cd, "customerCount"), Num(4200)),
       Mul(OrElse(parseFloat(Get(cd, "employees")), Zero), Num(500000)) >>

\* value is the largest of the anchors: it is one of them, it is below none,
\* and it is not their average unless they are all equal
C14_IsMaxOf(value, anchors) ==
    /\ \E i \in 1..4 : value = MathRound(anchors[i])
    /\ \A i \in 1..4 : Ge(value, MathRound(anchors[i]))
    /\ (\E i, j \in 1..4 : Lt(anchors[i], anchors[j]))
          => value # MathRound(Div(SumOf(anchors), Num(4)))

\* C14: the comparables value is the maximum of its four anchors, revenue x
\* 12.5, (revenue - expenses) x 35, customer count x 4200 and headcount x
\* 500000: never their average and never below one of them.
C14_ComparablesIsMaxAnchor ==
    Done => C14_IsMaxOf(valuationResults.comparables, C14_Anchors(computedFor))

\* 2,000,000 x 1.25 x 1.0 x 1.1 x 0.9 x 1.05 x 0.95 x 1.0
C15_Scorecard ==
    Mul(Mul(Mul(Num(2000000), Dec(125, 2)), Mul(Num(1), Dec(11, 1))),
        Mul(Mul(Dec(9, 1), Dec(105, 2)), Mul(Dec(95, 2), Num(1))))

\* the scorecard value x (1 + 0.25 x the sum of the twelve risk scores)
C15_RiskFactor ==
    Mul(C15_Scorecard,
        Add(Num(1),
            Mul(Dec(25, 2),
                Num(0 + (-1) + 0 + 0 + 1 + 0 + (-1) + 1 + 0 + 0 + 1 + 0))))

\* C15: the risk-factor value is the scorecard value times (1 + 0.25 x the
\* sum of the twelve risk scores), the scorecard value being the regional
\* average times the product of the seven adjustment factors.
C15_RiskFactorFromScorecard ==
    Done => /\ valuationResults.scorecard = MathRound(C15_Scorecard)
            /\ valuationResults.riskFactor = MathRound(C15_RiskFactor)

\* C15 witness: a calculation that selects the risk-factor method and reports
\* its value, 3,086,016, as the final valuation
C15_RiskFactorSelected ==
    /\ Done
    /\ valuationResults.selectedMethod = "riskFactor"
    /\ valuationResults.final = Num(3086016)

C17_DcfAtMargin(revenue, growthRate, margin) ==
    dcfFrom([year \in 1..5 |->
                Mul(Mul(revenue, MathPow(Add(Num(1), Div(growthRate, Num(100))), year)),
                    margin)])

\* C17: with revenue > 0 the margin of each of the five projected years is
\* (revenue - expenses) / revenue; the 0.30 margin is for revenue 0 only.
C17_MarginIsEbitdaOverRevenue ==
    (Done /\ Gt(numericField(computedFor, "revenue"), Zero))
    => valuationResults.dcf =
          MathRound(C17_DcfAtMargin(numericField(computedFor, "revenue"),
                                    numericField(computedFor, "growthRate"),
                                    Div(Sub(numericField(computedFor, "revenue"),
                                            numericField(computedFor, "expenses")),
                                        numericField(computedFor, "revenue"))))

\* the growth rate cd supplies: the number its text gives, else the one
\* calculateValuations falls back to
C18_GrowthOf(cd) ==
    IF IsFinite(parseFloat(Get(cd, "growthRate")))
    THEN parseFloat(Get(cd, "growthRate"))
    ELSE numericField(cd, "growthRate")

\* terminal revenue x 15 / 10 x 0.75
C18_FromTerminalRevenue(terminal) ==
    Mul(Div(Mul(terminal, Num(15)), Num(10)), Dec(75, 2))

\* C18: with revenue 0 the venture-capital value is that of the terminal
\* revenue 10,000,000; with revenue > 0 it is that of the revenue compounded
\* for five years at the growth rate.
C18_VcFallbackOnlyWithoutRevenue ==
    Done => valuationResults.vcMethod =
               MathRound(IF numericField(computedFor, "revenue") = Zero
                         THEN C18_FromTerminalRevenue(Num(10000000))
                         ELSE C18_FromTerminalRevenue(
                                 Mul(numericField(computedFor, "revenue"),
                                     MathPow(Add(Num(1),
                                                 Div(C18_GrowthOf(computedFor), Num(100))),
                                             5))))

\* the growth step factor x the churn step factor x the LTV/CAC step factor
\* x 1.05
C19_Factor(growthRate, churnRate, cac, ltv) ==
    Mul(Mul(CASE Gt(growthRate, Num(30)) -> Dec(12, 1)
              [] ~Gt(growthRate, Num(30)) /\ Gt(growthRate, Num(20)) -> Dec(11, 1)
              [] OTHER -> Num(1),
            CASE Lt(churnRate, Num(5)) -> Dec(11, 1)
              [] Ge(churnRate, Num(10)) -> Dec(9, 1)
              [] OTHER -> Num(1)),
        Mul(IF Gt(Div(ltv, cac), Num(3)) THEN Dec(115, 2) ELSE Dec(105, 2),
            Dec(105, 2)))

\* ai is the comparables value times the factor and, when the comparables
\* value is >= 0, between 0.99225 and 1.5939 times the comparables value
C19_Stepped(ai, comparables, factor) ==
    /\ ai = MathRound(Mul(comparables, factor))
    /\ Ge(comparables, Zero)
          => /\ Ge(ai, MathRound(Mul(comparables, Dec(99225, 5))))
             /\ Le(ai, MathRound(Mul(comparables, Dec(15939, 4))))

\* the comparables value of cd before Math.round
C19_Comparables(cd) ==
    comparablesValue(numericField(cd, "revenue"), numericField(cd, "expenses"),
                     numericField(cd, "customerCount"), Get(cd, "employees"))

ExpectedFields == RequiredKeys \cup OptionalKeys

\* the fraction of the expected fields that are non-empty and non-zero in cd
C20_Score(cd) ==
    Div(Num(Cardinality({key \in ExpectedFields :
                            /\ Truthy(Get(cd, key))
                            /\ parseFloat(Get(cd, key)) # Zero})),
        Num(Cardinality(ExpectedFields)))

\* C20: the data-quality score is the number of non-empty, non-zero fields
\* over the number of expected fields, so a field that is zero or left out
\* does not raise it; the confidence is computed from that score.
C20_ScoreOverExpectedFields ==
    Done => /\ dataCompleteness(computedFor) = C20_Score(computedFor)
            /\ valuationResults.confidence =
                  MathRound(Min2(Num(95),
                                 Max2(Num(60),
                                      Mul(Mul(C20_Score(computedFor),
                                              methodConfidence(numericField(computedFor, "revenue"))),
                                          Num(100)))))

\* x brought into the band from lo to hi
C21_Clamp(x, lo, hi) == IF Lt(x, lo) THEN lo ELSE IF Gt(x, hi) THEN hi ELSE x

\* the share of the fields of cd that are not empty
C21_Completeness(cd) ==
    Div(Num(Cardinality({key \in DOMAIN cd : cd[key] # << >>})),
        Num(Cardinality(DOMAIN cd)))

\* C21: the confidence is round(clamp(completeness x prior x 100, 60, 95)),
\* the prior being 0.9 with revenue > 0 and 0.7 otherwise, with the same
\* bounds 60 and 95 for every companyData.
C21_ConfidenceFormula ==
    Done => valuationResults.confidence =
               MathRound(C21_Clamp(Mul(Mul(C21_Completeness(computedFor),
                                           IF Gt(numericField(computedFor, "revenue"), Zero)
                                           THEN Dec(9, 1) ELSE Dec(7, 1)),
                                       Num(100)),
                                   Num(60), Num(95)))

\* C21 witness: a calculation without revenue whose confidence, 70, is inside
\* the band and comes from the prior 0.7
C21_PriorWithoutRevenue ==
    /\ Done
    /\ ~Gt(numericField(computedFor, "revenue"), Zero)
    /\ valuationResults.confidence = Num(70)

C24_ConfidenceCeiling ==
    Done => /\ Le(valuationResults.confidence, Num(90))
            /\ ~Gt(numericField(computedFor, "revenue"), Zero)
                  => Le(valuationResults.confidence, Num(70))
            /\ Lt(RawConfidence(computedFor), Num(60))
                  => valuationResults.confidence = Num(60)

\* C24 witness: a calculation with confidence 90
C24_CeilingReached == Done /\ valuationResults.confidence = Num(90)

\* the methods getAIRecommendation can return
C25_Selectable == {"berkus", "scorecard", "riskFactor", "dcf", "comparables"}

\* C25 as stated: only berkus, scorecard, riskFactor, dcf or comparables is
\* selected and the final valuation is never the venture-capital, UCaaS or
\* AI value.
C25_NeverVcOrRecurringValue ==
    Done => /\ selectedModel \in C25_Selectable
            /\ valuationResults.final # valuationResults.vcMethod
            /\ valuationResults.final # valuationResults.ucaas
            /\ valuationResults.final # valuationResults.ai

\* C25 as amended: only berkus, scorecard, riskFactor, dcf or comparables is
\* selected, so the final valuation is the value of one of these five
\* methods; it is the UCaaS value as well whenever it is the comparables
\* value.
C25_OnlyFiveSelected ==
    Done => /\ selectedModel \in C25_Selectable
            /\ valuationResults.selectedMethod \in C25_Selectable
            /\ \E m \in C25_Selectable : valuationResults.final = valuationResults[m]
            /\ valuationResults.final = valuationResults.comparables
                  => valuationResults.final = valuationResults.ucaas

\* C25 witness: comparables is selected and the final valuation is the
\* comparables value, which is the UCaaS value too
C25_ComparablesSelected ==
    /\ Done
    /\ selectedModel = "comparables"
    /\ valuationResults.final = valuationResults.comparables
    /\ valuationResults.final = valuationResults.ucaas

\* C26: after a calculation, whenever the calculating indicator is off the
\* results shown were computed from the current companyData.
C26_ResultsOfCurrentData ==
    (Done /\ ~calculating) => computedFor = companyData

\* the entries each aggregation runs over
C23_Entries ==
    [berkus |-> 5, scorecard |-> 7, risk |-> 12, projection |-> 5,
     discounting |-> 5, comparables |-> 4]

\* C23: calculateValuations terminates for every input after a number of
\* steps that does not depend on the input: the projection loop makes five
\* iterations and the Berkus, scorecard, risk and comparable aggregations
\* run over 5, 7, 12 and 4 entries.
C23_TerminatesInFixedSteps ==
    <>(pc = "done" /\ iterations = C23_Entries /\ steps = 44)

\* C23 witness: a call on a company whose revenue text is no number has
\* ended, with the values of the one-step calculation
C23_EndedOnUnusableRevenue ==
    /\ pc = "done"
    /\ IsNaN(parseFloat(Get(callData, "revenue")))
    /\ computed.berkus = berkusValue
    /\ computed.scorecard = scorecardValue
    /\ computed.riskFactor = riskFactorValue
    /\ computed.dcf = calculateValuations(callData).dcf
    /\ computed.comparables = calculateValuations(callData).comparables

\* C27: every click on Calculate Valuation that puts the view in
\* 'calculating' eventually puts it in 'results', on a successful response
\* directly and through the local fallback after an error, a malformed body
\* or a failed request.
C27_ClickLeadsToResults == (activeView = "calculating") ~> (activeView = "results")

\* C27 witness: the results of the second click are shown after a malformed
\* body, computed by the local fallback
C27_ResultsAfterMalformedBody ==
    /\ activeView = "results"
    /\ outcome = "malformed"
    /\ clicks = 2
    /\ mmvValuationResults.selectedMethod \in mmvModelIds

\* the valuationResults field that holds the value of a recommended method
C28_FieldOf(method) ==
    IF method \in DOMAIN backendMethods THEN backendMethods[method] ELSE method

\* C28: whenever the view is 'results', selectedModel is
\* valuationResults.selectedMethod, the recommended method and not one picked
\* by hand, and the final valuation shown is the value of that method.
C28_ResultsShowRecommended ==
    activeView = "results"
       => /\ mmvSelectedModel = mmvValuationResults.selectedMethod
          /\ mmvValuationResults.final =
                mmvValuationResults[C28_FieldOf(mmvValuationResults.selectedMethod)]

\* C29: for the same companyData the local engines of MultiModelValuation
\* and ValuationAnalysis give the same method and justification, the same
\* Berkus, Scorecard, Risk-Factor, VC, DCF and Comparables values, the same
\* final valuation and the same confidence.
C29_EnginesAgree ==
    (Done /\ activeView = "results" /\ computedFor = mmvCompanyData)
       => /\ mmvSelectedModel = selectedModel
          /\ mmvAiRecommendation = aiRecommendation
          /\ \A field \in DOMAIN mmvValuationResults :
                mmvValuationResults[field] = valuationResults[field]

\* C29 witness: both engines have calculated for a company whose selected
\* DCF value is 0 and whose final valuation is the Scorecard value
C29_BothCalculatedWithFallback ==
    /\ Done
    /\ activeView = "results"
    /\ computedFor = mmvCompanyData
    /\ mmvValuationResults.selectedMethod = "dcf"
    /\ mmvValuationResults.dcf = Zero
    /\ mmvValuationResults.final = mmvValuationResults.scorecard

\* C30: after any sequence of upload, skip, edit, back and proceed actions,
\* the valuation step is only entered, and only stayed in, with a company
\* name and a revenue that are not empty, and proceedToValuation with either
\* of them empty leaves currentStep as it is.
C30_ValuationStepNeedsNameAndRevenue ==
    [][/\ currentStep' = 3
          => manualData'.companyName # S_empty /\ manualData'.revenue # S_empty
       /\ (/\ lastHandler' = "proceedToValuation"
           /\ manualData.companyName = S_empty \/ manualData.revenue = S_empty)
          => currentStep' = currentStep]_vars

\* C30 witness: the valuation step is entered with typed data while an
\* upload started before still awaits its response
C30_ProceededDuringUpload ==
    /\ currentStep = 3
    /\ lastHandler = "proceedToValuation"
    /\ uploading
    /\ manualData.companyName = S_name

====
